---- MODULE Spec2Model ----
(***************************************************************************)
(* A model of the Simit IR core declared in src/ir.h: the intrusively      *)
(* reference-counted nodes (IRNode, FuncContent), the Expr/Stmt handles    *)
(* with their isa/to downcasts and visitor dispatch, ForDomain, the        *)
(* tensor read/write factories, getIndexExprType and Func.                 *)
(*                                                                         *)
(* Each group of variables belongs to one specification; a specification   *)
(* leaves the variables of the other groups at their idle values.          *)
(***************************************************************************)
EXTENDS Integers, Sequences, FiniteSets, TLC

Null == "nullptr"

(***************************************************************************)
(* State                                                                   *)
(***************************************************************************)
\* Reference counts and handles
VARIABLES
  ref,        \* ref[n]: the node's counter (mutable long ref = 0)
  alive,      \* alive[n]: the node has been allocated and not yet deleted
  deletes,    \* deletes[n]: how many times `delete node` has run
  hptr,       \* hptr[h]: the node handle h points to, or Null
  dropped     \* dropped[n]: how many handles of n have been destroyed so far

refVars == <<ref, alive, deletes, hptr, dropped>>

\* Two threads on one node
VARIABLES
  locked,     \* the driver wraps each aquire/release in one external lock
  cnode,      \* the node the threads share
  pc,         \* pc[t]: "idle", "aquire", "release" (between read and write) or "crashed"
  tmp,        \* tmp[t]: the value of ref the thread has read
  cur,        \* cur[t]: the handle the thread's current call is for
  uaf         \* a thread has touched the node after its deletion

concVars == <<locked, cnode, pc, tmp, cur, uaf>>

\* One Expr or Stmt handle and its node
VARIABLES
  hclass,     \* the handle's class: "Expr" or "Stmt"
  ptr,        \* the handle's pointer: Null (undefined handle) or the node's address
  node,       \* the node: [kind, type, data]
  typeAtMake, \* the Type the factory stored in the node
  visited,    \* the visitor callbacks invoked so far, in order
  nAccept,    \* how many accept calls have returned
  res,        \* the last call and what it returned
  halt        \* "running", "iassert" (fatal invariant failure) or "ub"

hVars == <<hclass, ptr, node, typeAtMake, visited, nAccept, res, halt>>

\* ForDomain
VARIABLES
  fd,         \* the ForDomain object built by the last constructor call
  fdCall,     \* the last constructor call and its arguments
  fdOut       \* "none", "accepted" or "iassert"

fdVars == <<fd, fdCall, fdOut>>

\* TensorRead / TensorWrite
VARIABLES
  tCall,      \* the last make call: [op, order, indices]
  tOut        \* "none", "node" or "iassert"

tVars == <<tCall, tOut>>

\* IndexExpr
VARIABLES
  ieCall,     \* the last call: [resultVars, value]
  ieType      \* the Type it returned

ieVars == <<ieCall, ieType>>

\* Func
VARIABLES
  content,    \* the FuncContent the Func points to
  ctor,       \* the values the constructor was given
  lastEnv,    \* the argument of the most recent setEnvironment
  lastStorage,\* the argument of the most recent setStorage
  got         \* the last getter called and what it returned

fnVars == <<content, ctor, lastEnv, lastStorage, got>>

\* What the actions of one part leave alone.
exceptRef == <<concVars, hVars, fdVars, tVars, ieVars, fnVars>>
exceptThreads == <<hVars, fdVars, tVars, ieVars, fnVars>>
exceptNode == <<refVars, concVars, fdVars, tVars, ieVars, fnVars>>
exceptForDomain == <<refVars, concVars, hVars, tVars, ieVars, fnVars>>
exceptTensor == <<refVars, concVars, hVars, fdVars, ieVars, fnVars>>
exceptIndexExpr == <<refVars, concVars, hVars, fdVars, tVars, fnVars>>
exceptFunc == <<refVars, concVars, hVars, fdVars, tVars, ieVars>>

vars == <<refVars, concVars, hVars, fdVars, tVars, ieVars, fnVars>>

(***************************************************************************)
(* Bounds of the model                                                     *)
(***************************************************************************)
MaxHandles == 3
MaxRef == 4

(***************************************************************************)
(* Part 1. Reference counting: IRNode::ref / FuncContent::ref              *)
(***************************************************************************)
\* The two reference-counted classes of ir.h.
Nodes == {"IRNode", "FuncContent"}

Handles == 1..MaxHandles

\* friend void aquire(const IRNode *node) {++node->ref;}
IRNode_aquire(r) == r + 1

\* release deletes when the count is 2 after the decrement (off by one)
IRNode_release_Mut(r) == [ref |-> r - 1, del |-> (r - 1 = 1)]

\* friend void release(const IRNode *node) {if (--node->ref == 0) delete node;}
IRNode_release(r) == [ref |-> r - 1, del |-> (r - 1 = 0)]

\* friend inline void aquire(FuncContent *c) {++c->ref;}
FuncContent_aquire(r) == r + 1

\* release comparing the value before the decrement (c->ref-- == 0)
FuncContent_release_Mut(r) == [ref |-> r - 1, del |-> (r = 0)]

\* friend inline void release(FuncContent *c) {if (--c->ref==0) delete c;}
FuncContent_release(r) == [ref |-> r - 1, del |-> (r - 1 = 0)]

\* Overload resolution of aquire/release on the pointee type.
aquire(n, r) == IF n = "IRNode" THEN IRNode_aquire(r) ELSE FuncContent_aquire(r)
release(n, r) == IF n = "IRNode" THEN IRNode_release(r) ELSE FuncContent_release(r)

\* The handles that currently reference node n.
LiveHandles(n) == {h \in Handles : hptr[h] = n}

RefInit ==
  /\ ref = [n \in Nodes |-> 0]
  /\ alive = [n \in Nodes |-> TRUE]
  /\ deletes = [n \in Nodes |-> 0]
  /\ hptr = [h \in Handles |-> Null]
  /\ dropped = [n \in Nodes |-> 0]

\* IntrusivePtr(T *p): ptr = p; aquire(ptr).  The raw pointer must be valid.
HandleCreate(h, n) ==
  /\ hptr[h] = Null
  /\ alive[n]
  /\ hptr' = [hptr EXCEPT ![h] = n]
  /\ ref' = [ref EXCEPT ![n] = aquire(n, ref[n])]
  /\ UNCHANGED <<alive, deletes, dropped>>
  /\ UNCHANGED exceptRef

\* IntrusivePtr(const IntrusivePtr &other): ptr = other.ptr; aquire(ptr).
HandleCopy(h, g) ==
  /\ hptr[h] = Null
  /\ hptr[g] # Null
  /\ hptr' = [hptr EXCEPT ![h] = hptr[g]]
  /\ ref' = [ref EXCEPT ![hptr[g]] = aquire(hptr[g], ref[hptr[g]])]
  /\ UNCHANGED <<alive, deletes, dropped>>
  /\ UNCHANGED exceptRef

\* ~IntrusivePtr(): release(ptr).
HandleDrop(h) ==
  /\ hptr[h] # Null
  /\ LET n == hptr[h]
         r == release(n, ref[n])
     IN /\ hptr' = [hptr EXCEPT ![h] = Null]
        /\ ref' = [ref EXCEPT ![n] = r.ref]
        /\ alive' = [alive EXCEPT ![n] = IF r.del THEN FALSE ELSE @]
        /\ deletes' = [deletes EXCEPT ![n] = IF r.del THEN @ + 1 ELSE @]
        /\ dropped' = [dropped EXCEPT ![n] = IF @ < MaxHandles THEN @ + 1 ELSE @]
  /\ UNCHANGED exceptRef

RefNext ==
  \/ \E h \in Handles, n \in Nodes : HandleCreate(h, n)
  \/ \E h \in Handles, g \in Handles : HandleCopy(h, g)
  \/ \E h \in Handles : HandleDrop(h)


(***************************************************************************)
(* Part 2. The same counters under two threads.  ++ref and --ref are       *)
(* ordinary (non-atomic) read-modify-write sequences on a long, so each    *)
(* aquire/release is a read step followed by a write step.  With `locked`  *)
(* the surrounding driver serializes whole aquire/release calls.           *)
(***************************************************************************)
Threads == {1, 2}

\* Handles are thread-local objects: handle h belongs to one thread.
Owner(h) == ((h - 1) % 2) + 1

\* External locking: a call starts only when no other thread is inside one.
MayEnter(t) == locked => \A u \in Threads \ {t} : pc[u] \in {"idle", "crashed"}

ConcIdle ==
  /\ locked = FALSE
  /\ cnode = "IRNode"
  /\ pc = [t \in Threads |-> "idle"]
  /\ tmp = [t \in Threads |-> 0]
  /\ cur = [t \in Threads |-> 1]
  /\ uaf = FALSE

ConcInit ==
  /\ RefInit
  /\ locked \in BOOLEAN
  /\ cnode \in Nodes
  /\ pc = [t \in Threads |-> "idle"]
  /\ tmp = [t \in Threads |-> 0]
  /\ cur = [t \in Threads |-> 1]
  /\ uaf = FALSE

\* ++node->ref, first half: load ref.  The thread holds a pointer to the node
\* (the raw pointer while the node is new, or one of its own handles).
AquireRead(t, h) ==
  /\ pc[t] = "idle"
  /\ MayEnter(t)
  /\ Owner(h) = t
  /\ hptr[h] = Null
  /\ alive[cnode]
  /\ ref[cnode] < MaxRef
  /\ tmp' = [tmp EXCEPT ![t] = ref[cnode]]
  /\ cur' = [cur EXCEPT ![t] = h]
  /\ pc' = [pc EXCEPT ![t] = "aquire"]
  /\ UNCHANGED <<refVars, locked, cnode, uaf>>
  /\ UNCHANGED exceptThreads

\* ++node->ref, second half: store the incremented value.
AquireWrite(t) ==
  /\ pc[t] = "aquire"
  /\ alive[cnode]
  /\ ref' = [ref EXCEPT ![cnode] = aquire(cnode, tmp[t])]
  /\ hptr' = [hptr EXCEPT ![cur[t]] = cnode]
  /\ pc' = [pc EXCEPT ![t] = "idle"]
  /\ UNCHANGED <<alive, deletes, dropped, locked, cnode, tmp, cur, uaf>>
  /\ UNCHANGED exceptThreads

\* The store of ++node->ref lands in freed memory: undefined behaviour.  The
\* thread either faults or the store goes through on the stale object.
AquireWriteFreed(t) ==
  /\ pc[t] = "aquire"
  /\ ~alive[cnode]
  /\ uaf' = TRUE
  /\ \/ /\ pc' = [pc EXCEPT ![t] = "crashed"]
        /\ UNCHANGED <<ref, hptr>>
     \/ /\ ref' = [ref EXCEPT ![cnode] = aquire(cnode, tmp[t])]
        /\ hptr' = [hptr EXCEPT ![cur[t]] = cnode]
        /\ pc' = [pc EXCEPT ![t] = "idle"]
  /\ UNCHANGED <<alive, deletes, dropped, locked, cnode, tmp, cur>>
  /\ UNCHANGED exceptThreads

\* --node->ref, first half: load ref.
ReleaseRead(t, h) ==
  /\ pc[t] = "idle"
  /\ MayEnter(t)
  /\ Owner(h) = t
  /\ hptr[h] = cnode
  /\ alive[cnode]
  /\ tmp' = [tmp EXCEPT ![t] = ref[cnode]]
  /\ cur' = [cur EXCEPT ![t] = h]
  /\ pc' = [pc EXCEPT ![t] = "release"]
  /\ UNCHANGED <<refVars, locked, cnode, uaf>>
  /\ UNCHANGED exceptThreads

\* The handle's node is already deleted: the load reads freed memory.  The
\* thread either faults or reads the stale counter.
ReleaseReadFreed(t, h) ==
  /\ pc[t] = "idle"
  /\ MayEnter(t)
  /\ Owner(h) = t
  /\ hptr[h] = cnode
  /\ ~alive[cnode]
  /\ uaf' = TRUE
  /\ cur' = [cur EXCEPT ![t] = h]
  /\ \/ /\ pc' = [pc EXCEPT ![t] = "crashed"]
        /\ UNCHANGED tmp
     \/ /\ tmp' = [tmp EXCEPT ![t] = ref[cnode]]
        /\ pc' = [pc EXCEPT ![t] = "release"]
  /\ UNCHANGED <<refVars, locked, cnode>>
  /\ UNCHANGED exceptThreads

\* --node->ref, second half: store the decremented value, and delete the node
\* if the value this thread computed is zero.
ReleaseWrite(t) ==
  /\ pc[t] = "release"
  /\ alive[cnode]
  /\ LET r == release(cnode, tmp[t])
     IN /\ ref' = [ref EXCEPT ![cnode] = r.ref]
        /\ hptr' = [hptr EXCEPT ![cur[t]] = Null]
        /\ alive' = [alive EXCEPT ![cnode] = IF r.del THEN FALSE ELSE @]
        /\ deletes' = [deletes EXCEPT ![cnode] = IF r.del THEN @ + 1 ELSE @]
        /\ dropped' = [dropped EXCEPT ![cnode] = IF @ < MaxHandles THEN @ + 1 ELSE @]
  /\ pc' = [pc EXCEPT ![t] = "idle"]
  /\ UNCHANGED <<locked, cnode, tmp, cur, uaf>>
  /\ UNCHANGED exceptThreads

\* The store of --node->ref lands in freed memory: undefined behaviour.  The
\* thread either faults, or the store goes through and a zero result deletes
\* the node a second time.
ReleaseWriteFreed(t) ==
  /\ pc[t] = "release"
  /\ ~alive[cnode]
  /\ uaf' = TRUE
  /\ \/ /\ pc' = [pc EXCEPT ![t] = "crashed"]
        /\ UNCHANGED <<ref, hptr, deletes, dropped>>
     \/ LET r == release(cnode, tmp[t])
        IN /\ ref' = [ref EXCEPT ![cnode] = r.ref]
           /\ hptr' = [hptr EXCEPT ![cur[t]] = Null]
           /\ deletes' = [deletes EXCEPT ![cnode] =
                            IF r.del /\ @ < MaxHandles THEN @ + 1 ELSE @]
           /\ dropped' = [dropped EXCEPT ![cnode] = IF @ < MaxHandles THEN @ + 1 ELSE @]
           /\ pc' = [pc EXCEPT ![t] = "idle"]
  /\ UNCHANGED <<alive, locked, cnode, tmp, cur>>
  /\ UNCHANGED exceptThreads

ConcStep ==
  \/ \E t \in Threads, h \in Handles : AquireRead(t, h)
  \/ \E t \in Threads : AquireWrite(t)
  \/ \E t \in Threads : AquireWriteFreed(t)
  \/ \E t \in Threads, h \in Handles : ReleaseRead(t, h)
  \/ \E t \in Threads, h \in Handles : ReleaseReadFreed(t, h)
  \/ \E t \in Threads : ReleaseWrite(t)
  \/ \E t \in Threads : ReleaseWriteFreed(t)


(***************************************************************************)
(* Part 3. The node catalog, the Expr/Stmt handles, isa/to, type() and     *)
(* visitor dispatch.                                                       *)
(***************************************************************************)
MaxVisits == 2

\* Every node struct of ir.h: <<struct, base template, template argument>>,
\* as written in `struct X : public ExprNode<T>` / `StmtNode<T>`.
NodeDecls == {
  <<"Literal", "ExprNode", "Literal">>,
  <<"VarExpr", "ExprNode", "VarExpr">>,
  <<"Load", "ExprNode", "Load">>,
  <<"FieldRead", "ExprNode", "FieldRead">>,
  <<"Call", "ExprNode", "Call">>,
  <<"Length", "ExprNode", "Length">>,
  <<"IndexRead", "ExprNode", "IndexRead">>,
  <<"TensorIndexRead", "ExprNode", "TensorIndexRead">>,
  <<"Neg", "ExprNode", "Neg">>,
  <<"Add", "ExprNode", "Add">>,
  <<"Sub", "ExprNode", "Sub">>,
  <<"Mul", "ExprNode", "Mul">>,
  <<"Div", "ExprNode", "Div">>,
  <<"Not", "ExprNode", "Not">>,
  <<"Eq", "ExprNode", "Eq">>,
  <<"Ne", "ExprNode", "Ne">>,
  <<"Gt", "ExprNode", "Gt">>,
  <<"Lt", "ExprNode", "Lt">>,
  <<"Ge", "ExprNode", "Ge">>,
  <<"Le", "ExprNode", "Le">>,
  <<"And", "ExprNode", "And">>,
  <<"Or", "ExprNode", "Or">>,
  <<"Xor", "ExprNode", "Xor">>,
  <<"VarDecl", "StmtNode", "VarDecl">>,
  <<"AssignStmt", "StmtNode", "AssignStmt">>,
  <<"Store", "StmtNode", "Store">>,
  <<"FieldWrite", "StmtNode", "FieldWrite">>,
  <<"CallStmt", "StmtNode", "CallStmt">>,
  <<"Block", "StmtNode", "Block">>,
  <<"IfThenElse", "StmtNode", "IfThenElse">>,
  <<"ForRange", "StmtNode", "ForRange">>,
  <<"For", "StmtNode", "For">>,
  <<"While", "StmtNode", "While">>,
  <<"Kernel", "StmtNode", "Kernel">>,
  <<"Print", "StmtNode", "Print">>,
  <<"Comment", "StmtNode", "Comment">>,
  <<"Pass", "StmtNode", "Pass">>,
  <<"TupleRead", "ExprNode", "TupleRead">>,
  <<"TensorRead", "ExprNode", "TensorRead">>,
  <<"TensorWrite", "StmtNode", "TensorWrite">>,
  <<"IndexedTensor", "ExprNode", "IndexedTensor">>,
  <<"IndexExpr", "ExprNode", "IndexExpr">>,
  <<"Map", "StmtNode", "Map">> }

ExprKinds == {d[1] : d \in {e \in NodeDecls : e[2] = "ExprNode"}}
StmtKinds == {d[1] : d \in {e \in NodeDecls : e[2] = "StmtNode"}}
AllKinds == ExprKinds \cup StmtKinds

\* struct ExprNodeBase : public IRNode; struct StmtNodeBase : public IRNode.
BaseClasses == {"IRNode", "ExprNodeBase", "StmtNodeBase"}

Decl(k) == CHOOSE d \in NodeDecls : d[1] = k

\* Add is declared over Sub's node template (a copy-paste slip)
TemplateArg_Mut(k) == IF k = "Add" THEN "Sub" ELSE Decl(k)[3]

\* The T of the ExprNode<T> / StmtNode<T> that struct k derives from.
TemplateArg(k) == Decl(k)[3]

\* The classes an object of dynamic type k is an instance of.
ClassesOf(k) ==
  {k, "IRNode"} \cup (IF Decl(k)[2] = "ExprNode" THEN {"ExprNodeBase"} ELSE {"StmtNodeBase"})

\* The values a Type may take (the representation of Type is not part of ir.h).
Types == {"int", "float"}

NodeAddr == "node"
NoRes == [op |-> "none", E |-> "", out |-> "", view |-> Null]

\* Type is a member of ExprNodeBase only.
NoType == "no type member"

HIdle ==
  /\ hclass = "Expr"
  /\ ptr = Null
  /\ node = [kind |-> "Pass", type |-> NoType, data |-> NoType]
  /\ typeAtMake = NoType
  /\ visited = <<>>
  /\ nAccept = 0
  /\ res = NoRes
  /\ halt = "running"

\* A node built by one of the factories, and a handle that is either
\* default-constructed (Expr(), Stmt()) or wraps the node.
HInit ==
  /\ hclass \in {"Expr", "Stmt"}
  /\ \E k \in AllKinds, ty \in Types :
       /\ k \in (IF hclass = "Expr" THEN ExprKinds ELSE StmtKinds)
       /\ node = [kind |-> k,
                  type |-> IF hclass = "Expr" THEN ty ELSE NoType,
                  data |-> IF hclass = "Expr" THEN ty ELSE NoType]
       /\ (hclass = "Stmt" => ty = "int")
  /\ typeAtMake = node.type
  /\ ptr \in {Null, NodeAddr}
  /\ visited = <<>>
  /\ nAccept = 0
  /\ res = NoRes
  /\ halt = "running"

\* IntrusivePtr::defined(): ptr != nullptr.
defined(p) == p # Null

\* dynamic_cast<const E*>(p) != nullptr for a node of dynamic type k.
DynamicCast(p, k, E) == p # Null /\ E \in ClassesOf(k)

\* iassert(c): passes when c holds, otherwise a fatal invariant failure.
iassert(c) == IF c THEN "ok" ELSE "iassert"

\* template <typename E> bool isa(Expr e)
Expr_isa(p, k, E) == defined(p) /\ DynamicCast(p, k, E)

\* to<E> without its check: static_cast whatever the node is
Expr_to_Mut(p, k, E) == [check |-> "ok", view |-> p]

\* template <typename E> const E* to(Expr e)
Expr_to(p, k, E) == [check |-> iassert(Expr_isa(p, k, E)), view |-> p]

\* template <typename S> bool isa(Stmt s)
Stmt_isa(p, k, S) == defined(p) /\ DynamicCast(p, k, S)

\* template <typename S> const S* to(Stmt s)
Stmt_to(p, k, S) == [check |-> iassert(Stmt_isa(p, k, S)), view |-> p]

isa(E) == IF hclass = "Expr" THEN Expr_isa(ptr, node.kind, E) ELSE Stmt_isa(ptr, node.kind, E)
to(E) == IF hclass = "Expr" THEN Expr_to(ptr, node.kind, E) ELSE Stmt_to(ptr, node.kind, E)

\* void accept(IRVisitorStrict *v) const { v->visit((const T *)this); }
\* The overload of visit chosen is the one taking const T*.
ExprNode_accept(k) == <<TemplateArg(k)>>
StmtNode_accept(k) == <<TemplateArg(k)>>
Node_accept(k) == IF k \in ExprKinds THEN ExprNode_accept(k) ELSE StmtNode_accept(k)

IsaStep(E) ==
  /\ halt = "running"
  /\ res' = [op |-> "isa", E |-> E, out |-> IF isa(E) THEN "true" ELSE "false",
             view |-> Null]
  /\ UNCHANGED <<hclass, ptr, node, typeAtMake, visited, nAccept, halt>>
  /\ UNCHANGED exceptNode

ToStep(E) ==
  /\ halt = "running"
  /\ LET r == to(E)
     IN /\ halt' = (IF r.check = "ok" THEN "running" ELSE "iassert")
        /\ res' = [op |-> "to", E |-> E,
                   out |-> IF r.check = "ok" THEN "view" ELSE "iassert",
                   view |-> IF r.check = "ok" THEN r.view ELSE Null]
  /\ UNCHANGED <<hclass, ptr, node, typeAtMake, visited, nAccept>>
  /\ UNCHANGED exceptNode

\* Type type() const {return static_cast<const ExprNodeBase*>(ptr)->type;}
Expr_type ==
  /\ halt = "running"
  /\ hclass = "Expr"
  /\ ptr # Null
  /\ res' = [op |-> "type", E |-> "", out |-> node.type, view |-> Null]
  /\ UNCHANGED <<hclass, ptr, node, typeAtMake, visited, nAccept, halt>>
  /\ UNCHANGED exceptNode

\* type() on an undefined handle reads through a null pointer, with no check
\* before the read: undefined behaviour.  The process faults, or the read
\* yields whatever lies at the member's offset from address zero.
Expr_type_Null ==
  /\ halt = "running"
  /\ hclass = "Expr"
  /\ ptr = Null
  /\ halt' = "ub"
  /\ \E o \in {"segfault", "garbage"} :
       res' = [op |-> "type", E |-> "", out |-> o, view |-> Null]
  /\ UNCHANGED <<hclass, ptr, node, typeAtMake, visited, nAccept>>
  /\ UNCHANGED exceptNode

\* void accept(IRVisitorStrict *v) const {ptr->accept(v);}  (Expr and Stmt)
Handle_accept ==
  /\ halt = "running"
  /\ ptr # Null
  /\ nAccept < MaxVisits
  /\ visited' = visited \o Node_accept(node.kind)
  /\ nAccept' = nAccept + 1
  /\ res' = [op |-> "accept", E |-> "", out |-> "returned", view |-> Null]
  /\ UNCHANGED <<hclass, ptr, node, typeAtMake, halt>>
  /\ UNCHANGED exceptNode

\* accept on an undefined handle is a virtual call through a null pointer,
\* again unchecked: the process faults, or control reaches some callback.
Handle_accept_Null ==
  /\ halt = "running"
  /\ ptr = Null
  /\ nAccept < MaxVisits
  /\ halt' = "ub"
  /\ \/ /\ res' = [op |-> "accept", E |-> "", out |-> "segfault", view |-> Null]
        /\ UNCHANGED visited
     \/ /\ res' = [op |-> "accept", E |-> "", out |-> "garbage", view |-> Null]
        /\ \E k \in {"Add", "Pass"} : visited' = Append(visited, k)
  /\ UNCHANGED <<hclass, ptr, node, typeAtMake, nAccept>>
  /\ UNCHANGED exceptNode

\* node->accept(v) called on the node itself.
NodeAcceptStep ==
  /\ halt = "running"
  /\ nAccept < MaxVisits
  /\ visited' = visited \o Node_accept(node.kind)
  /\ nAccept' = nAccept + 1
  /\ res' = [op |-> "accept", E |-> "", out |-> "returned", view |-> Null]
  /\ UNCHANGED <<hclass, ptr, node, typeAtMake, halt>>
  /\ UNCHANGED exceptNode

\* cast stores the requested type in the node
Literal_cast_Mut(n, ty) == [n EXCEPT !.type = ty, !.data = ty]

\* void Literal::cast(Type type): re-casts the stored representation and
\* keeps the node's type.
Literal_cast(n, ty) == [n EXCEPT !.data = ty]

LiteralCastStep(ty) ==
  /\ halt = "running"
  /\ node.kind = "Literal"
  /\ node' = Literal_cast(node, ty)
  /\ res' = [op |-> "cast", E |-> "", out |-> ty, view |-> Null]
  /\ UNCHANGED <<hclass, ptr, typeAtMake, visited, nAccept, halt>>
  /\ UNCHANGED exceptNode

HStep ==
  \/ \E E \in AllKinds \cup BaseClasses : IsaStep(E)
  \/ \E E \in AllKinds \cup BaseClasses : ToStep(E)
  \/ Expr_type
  \/ Expr_type_Null
  \/ Handle_accept
  \/ Handle_accept_Null
  \/ NodeAcceptStep
  \/ \E ty \in Types : LiteralCastStep(ty)


(***************************************************************************)
(* Part 4. ForDomain and its constructors.                                 *)
(***************************************************************************)
\* enum Kind { IndexSet, Endpoints, Edges, Neighbors, NeighborsOf, Diagonal };
ForDomainKinds == {"IndexSet", "Endpoints", "Edges", "Neighbors", "NeighborsOf", "Diagonal"}

\* A default-constructed IndexSet, and two populated ones.
DefaultIndexSet == "IndexSet()"
IndexSets == {DefaultIndexSet, "V", "E"}

\* Expr() is the undefined handle (Null); Var() the default variable.
DefaultVar == "Var()"
SetExprs == {Null, "edges", "points"}
LoopVars == {DefaultVar, "e"}

NoForDomain == [kind |-> "none", indexSet |-> DefaultIndexSet, set |-> Null, var |-> DefaultVar]
NoFdCall == [ctor |-> "none", set |-> Null, var |-> DefaultVar, kind |-> "none",
             indexSet |-> DefaultIndexSet]

FdIdle ==
  /\ fd = NoForDomain
  /\ fdCall = NoFdCall
  /\ fdOut = "none"

\* ForDomain() {}: kind is left uninitialized, so it holds any value of its
\* storage, one of the enumerators or not (k is that value).
ForDomain_default(k) ==
  [check |-> "ok",
   obj |-> [kind |-> k, indexSet |-> DefaultIndexSet, set |-> Null, var |-> DefaultVar]]

\* ForDomain(class IndexSet indexSet) : kind(IndexSet), indexSet(indexSet) {}
ForDomain_indexSet(is) ==
  [check |-> "ok",
   obj |-> [kind |-> "IndexSet", indexSet |-> is, set |-> Null, var |-> DefaultVar]]

\* ForDomain(Expr set, Var var, Kind kind) { iassert(kind != IndexSet); }
ForDomain_kind(set, var, kind) ==
  [check |-> iassert(kind # "IndexSet"),
   obj |-> [kind |-> kind, indexSet |-> DefaultIndexSet, set |-> set, var |-> var]]

\* the four-argument constructor carrying the three-argument one's check
ForDomain_kind_indexSet_Mut(set, var, kind, is) ==
  [check |-> iassert(kind # "IndexSet"),
   obj |-> [kind |-> kind, indexSet |-> is, set |-> set, var |-> var]]

\* ForDomain(Expr set, Var var, Kind kind, class IndexSet indexSet)
\*   { iassert(kind == NeighborsOf); }
ForDomain_kind_indexSet(set, var, kind, is) ==
  [check |-> iassert(kind = "NeighborsOf"),
   obj |-> [kind |-> kind, indexSet |-> is, set |-> set, var |-> var]]

\* One constructor call; a failed iassert is fatal and leaves no object.
Construct(call, r) ==
  /\ fdCall' = call
  /\ fdOut' = (IF r.check = "ok" THEN "accepted" ELSE "iassert")
  /\ fd' = (IF r.check = "ok" THEN r.obj ELSE NoForDomain)

ConstructDefault ==
  /\ fdOut # "iassert"
  /\ \E k \in ForDomainKinds \cup {"indeterminate"} :
       Construct([NoFdCall EXCEPT !.ctor = "()"], ForDomain_default(k))
  /\ UNCHANGED exceptForDomain

ConstructIndexSet ==
  /\ fdOut # "iassert"
  /\ \E is \in IndexSets :
       Construct([NoFdCall EXCEPT !.ctor = "(indexSet)", !.indexSet = is],
                 ForDomain_indexSet(is))
  /\ UNCHANGED exceptForDomain

ConstructKind ==
  /\ fdOut # "iassert"
  /\ \E set \in SetExprs, var \in LoopVars, kind \in ForDomainKinds :
       Construct([ctor |-> "(set,var,kind)", set |-> set, var |-> var, kind |-> kind,
                  indexSet |-> DefaultIndexSet],
                 ForDomain_kind(set, var, kind))
  /\ UNCHANGED exceptForDomain

ConstructKindIndexSet ==
  /\ fdOut # "iassert"
  /\ \E set \in SetExprs, var \in LoopVars, kind \in ForDomainKinds, is \in IndexSets :
       Construct([ctor |-> "(set,var,kind,indexSet)", set |-> set, var |-> var,
                  kind |-> kind, indexSet |-> is],
                 ForDomain_kind_indexSet(set, var, kind, is))
  /\ UNCHANGED exceptForDomain

FdStep ==
  \/ ConstructDefault
  \/ ConstructIndexSet
  \/ ConstructKind
  \/ ConstructKindIndexSet

(***************************************************************************)
(* Part 5. TensorRead::make and TensorWrite::make (declared in ir.h).      *)
(***************************************************************************)
MaxOrder == 3
MaxIndices == 4

\* The index expressions a caller may pass.
IndexExprs == {"x", "y"}

SeqsUpTo(S, n) == UNION {[1..m -> S] : m \in 0..n}

NoTCall == [op |-> "none", order |-> 0, indices |-> <<>>]

TIdle ==
  /\ tCall = NoTCall
  /\ tOut = "none"

\* make accepting any arity from 1 up to the tensor's order
TensorRead_make_Mut(order, indices) ==
  iassert(Len(indices) >= 1 /\ Len(indices) <= order)

\* static Expr make(Expr tensor, std::vector<Expr> indices): the caller must
\* provide either one or n indices, where n is the tensor order.
TensorRead_make(order, indices) ==
  iassert(Len(indices) = 1 \/ Len(indices) = order)

\* static Stmt make(Expr tensor, std::vector<Expr> indices, Expr value, cop):
\* the same arity rule as TensorRead.
TensorWrite_make(order, indices) ==
  iassert(Len(indices) = 1 \/ Len(indices) = order)

MakeTensorRead(order, indices) ==
  /\ tOut # "iassert"
  /\ tCall' = [op |-> "TensorRead", order |-> order, indices |-> indices]
  /\ tOut' = (IF TensorRead_make(order, indices) = "ok" THEN "node" ELSE "iassert")
  /\ UNCHANGED exceptTensor

MakeTensorWrite(order, indices) ==
  /\ tOut # "iassert"
  /\ tCall' = [op |-> "TensorWrite", order |-> order, indices |-> indices]
  /\ tOut' = (IF TensorWrite_make(order, indices) = "ok" THEN "node" ELSE "iassert")
  /\ UNCHANGED exceptTensor

TStep ==
  \/ \E order \in 0..MaxOrder, indices \in SeqsUpTo(IndexExprs, MaxIndices) :
       MakeTensorRead(order, indices)
  \/ \E order \in 0..MaxOrder, indices \in SeqsUpTo(IndexExprs, MaxIndices) :
       MakeTensorWrite(order, indices)

(***************************************************************************)
(* Part 6. getIndexExprType and IndexExpr (declared in ir.h).              *)
(***************************************************************************)
MaxResultVars == 2
MaxValueVars == 3

IndexVars == {"i", "j", "k"}

\* The size of the index set each index variable ranges over.
IndexSetSize(v) == CASE v = "i" -> 3 [] v = "j" -> 4 [] v = "k" -> 5

ComponentTypes == {"int", "float"}

NoIeCall == [resultVars |-> <<>>, value |-> [ctype |-> "int", vars |-> <<>>]]
NoIeType == [kind |-> "none", ctype |-> "int", order |-> 0, dims |-> <<>>]

IeIdle ==
  /\ ieCall = NoIeCall
  /\ ieType = NoIeType

RECURSIVE Dedup(_)
\* A sequence without its repeated elements, first occurrences kept in order.
Dedup(q) ==
  IF q = <<>> THEN <<>>
  ELSE LET front == Dedup(SubSeq(q, 1, Len(q) - 1))
           x == q[Len(q)]
       IN IF \E n \in 1..Len(front) : front[n] = x THEN front ELSE Append(front, x)

Range(q) == {q[n] : n \in 1..Len(q)}

\* std::vector<IndexVar> IndexExpr::domain() const: the index variables of the
\* IndexedTensor occurrences in value, in order of first appearance.
IndexExpr_domain(value) == Dedup(value.vars)

\* the dimensions taken in order of first appearance in value
getIndexExprType_Mut(lhsIndexVars, expr) ==
  LET free == SelectSeq(IndexExpr_domain(expr), LAMBDA v : v \in Range(lhsIndexVars))
  IN [kind |-> "tensor", ctype |-> expr.ctype, order |-> Len(free),
      dims |-> [d \in 1..Len(free) |-> IndexSetSize(free[d])]]

\* Type getIndexExprType(std::vector<IndexVar> lhsIndexVars, Expr expr)
getIndexExprType(lhsIndexVars, expr) ==
  [kind |-> "tensor", ctype |-> expr.ctype, order |-> Len(lhsIndexVars),
   dims |-> [d \in 1..Len(lhsIndexVars) |-> IndexSetSize(lhsIndexVars[d])]]

\* The arguments of one IndexExpr::make call, not yet made.
IeInit ==
  /\ \E rv \in SeqsUpTo(IndexVars, MaxResultVars),
        vv \in SeqsUpTo(IndexVars, MaxValueVars),
        ct \in ComponentTypes :
       ieCall = [resultVars |-> rv, value |-> [ctype |-> ct, vars |-> vv]]
  /\ ieType = NoIeType

\* static Expr IndexExpr::make(std::vector<IndexVar> resultVars, Expr value):
\* the node's type is getIndexExprType(resultVars, value).
IndexExpr_make ==
  /\ ieType.kind = "none"
  /\ ieType' = getIndexExprType(ieCall.resultVars, ieCall.value)
  /\ UNCHANGED ieCall
  /\ UNCHANGED exceptIndexExpr

IeStep == IndexExpr_make

(***************************************************************************)
(* Part 7. Func and FuncContent.                                           *)
(***************************************************************************)
\* enum Kind { Internal, External, Intrinsic };  FuncContent stores it as int.
FuncKinds == <<"Internal", "External", "Intrinsic">>

FuncNames == {"f", "g"}
VarLists == {<<>>, <<"a">>}
Bodies == {"body"}

\* Environment() and Storage(), and two populated values of each.
DefaultEnv == "Environment()"
Envs == {DefaultEnv, "envA", "envB"}
DefaultStorage == "Storage()"
Storages == {DefaultStorage, "stA", "stB"}

NoGot == [getter |-> "none", value |-> ""]

\* The position of an enumerator, as the int stored in FuncContent::kind.
KindToInt(kind) == CHOOSE n \in 0..2 : FuncKinds[n + 1] = kind

\* Func(name, arguments, results, body, kind)
Func_definition(name, arguments, results, body, kind) ==
  [kind |-> KindToInt(kind), name |-> name, arguments |-> arguments,
   results |-> results, env |-> DefaultEnv, body |-> body,
   storage |-> DefaultStorage]

\* Func(name, arguments, results, kind): a declaration, its body an undefined Stmt.
Func_declaration(name, arguments, results, kind) ==
  Func_definition(name, arguments, results, Null, kind)

FnIdle ==
  /\ content = Func_declaration("f", <<>>, <<>>, "Internal")
  /\ ctor = [name |-> "f", arguments |-> <<>>, results |-> <<>>, body |-> Null,
             kind |-> "Internal"]
  /\ lastEnv = DefaultEnv
  /\ lastStorage = DefaultStorage
  /\ got = NoGot

FnInit ==
  /\ \E name \in FuncNames, arguments \in VarLists, results \in VarLists,
        body \in Bodies \cup {Null}, kind \in Range(FuncKinds) :
       /\ ctor = [name |-> name, arguments |-> arguments, results |-> results,
                  body |-> body, kind |-> kind]
       /\ content = (IF body = Null
                       THEN Func_declaration(name, arguments, results, kind)
                       ELSE Func_definition(name, arguments, results, body, kind))
  /\ lastEnv = DefaultEnv
  /\ lastStorage = DefaultStorage
  /\ got = NoGot

\* std::string getName() const {return ptr->name;}
Func_getName(c) == c.name
\* const std::vector<Var> &getArguments() const {return ptr->arguments;}
Func_getArguments(c) == c.arguments
\* const std::vector<Var> &getResults() const {return ptr->results;}
Func_getResults(c) == c.results
\* Stmt getBody() const {return ptr->body;}
Func_getBody(c) == c.body
\* Func::Kind getKind() const {return static_cast<Kind>(ptr->kind);}
Func_getKind(c) == FuncKinds[c.kind + 1]
\* const Environment &getEnvironment() const {return ptr->env;}
Func_getEnvironment(c) == c.env
\* const Storage &getStorage() const {return ptr->storage;}
Func_getStorage(c) == c.storage

\* void setEnvironment(const Environment &env) {ptr->env = env;}
Func_setEnvironment(c, env) == [c EXCEPT !.env = env]

\* setStorage assigning a fresh content that carries only the storage
Func_setStorage_Mut(c, storage) == [c EXCEPT !.storage = storage, !.env = DefaultEnv]

\* void setStorage(const Storage &storage) {ptr->storage = storage;}
Func_setStorage(c, storage) == [c EXCEPT !.storage = storage]

setEnvironment(env) ==
  /\ content' = Func_setEnvironment(content, env)
  /\ lastEnv' = env
  /\ UNCHANGED <<ctor, lastStorage, got>>
  /\ UNCHANGED exceptFunc

setStorage(storage) ==
  /\ content' = Func_setStorage(content, storage)
  /\ lastStorage' = storage
  /\ UNCHANGED <<ctor, lastEnv, got>>
  /\ UNCHANGED exceptFunc

Getters == {"getName", "getArguments", "getResults", "getBody", "getKind",
            "getEnvironment", "getStorage"}

Get(c, g) ==
  CASE g = "getName" -> Func_getName(c)
    [] g = "getArguments" -> Func_getArguments(c)
    [] g = "getResults" -> Func_getResults(c)
    [] g = "getBody" -> Func_getBody(c)
    [] g = "getKind" -> Func_getKind(c)
    [] g = "getEnvironment" -> Func_getEnvironment(c)
    [] g = "getStorage" -> Func_getStorage(c)

CallGetter(g) ==
  /\ got' = [getter |-> g, value |-> Get(content, g)]
  /\ UNCHANGED <<content, ctor, lastEnv, lastStorage>>
  /\ UNCHANGED exceptFunc

FnStep ==
  \/ \E env \in Envs : setEnvironment(env)
  \/ \E storage \in Storages : setStorage(storage)
  \/ \E g \in Getters : CallGetter(g)

(***************************************************************************)
(* Specifications                                                          *)
(***************************************************************************)
\* Handles created, copied and dropped by one thread.
HandleInit == RefInit /\ ConcIdle /\ HIdle /\ FdIdle /\ TIdle /\ IeIdle /\ FnIdle
HandleNext == RefNext
SpecHandle == HandleInit /\ [][HandleNext]_vars

\* Two threads on one node.
ThreadsInit == ConcInit /\ HIdle /\ FdIdle /\ TIdle /\ IeIdle /\ FnIdle
ThreadsNext == ConcStep
SpecThreads == ThreadsInit /\ [][ThreadsNext]_vars

\* Calls on one Expr or Stmt handle.
NodeInit == RefInit /\ ConcIdle /\ HInit /\ FdIdle /\ TIdle /\ IeIdle /\ FnIdle
NodeNext == HStep
SpecNode == NodeInit /\ [][NodeNext]_vars

\* ForDomain constructor calls.
ForDomainInit == RefInit /\ ConcIdle /\ HIdle /\ FdIdle /\ TIdle /\ IeIdle /\ FnIdle
ForDomainNext == FdStep
SpecForDomain == ForDomainInit /\ [][ForDomainNext]_vars

\* TensorRead::make / TensorWrite::make calls.
TensorInit == RefInit /\ ConcIdle /\ HIdle /\ FdIdle /\ TIdle /\ IeIdle /\ FnIdle
TensorNext == TStep
SpecTensor == TensorInit /\ [][TensorNext]_vars

\* IndexExpr::make calls.
IndexExprInit == RefInit /\ ConcIdle /\ HIdle /\ FdIdle /\ TIdle /\ IeInit /\ FnIdle
IndexExprNext == IeStep
SpecIndexExpr == IndexExprInit /\ [][IndexExprNext]_vars

\* Setter and getter calls on one Func.
FuncInit == RefInit /\ ConcIdle /\ HIdle /\ FdIdle /\ TIdle /\ IeIdle /\ FnInit
FuncNext == FnStep
SpecFunc == FuncInit /\ [][FuncNext]_vars

(***************************************************************************)
(* Properties                                                              *)
(***************************************************************************)
\* C1: the count equals the number of live handles, a node is deleted exactly
\* by the release that takes the count to zero, never while a handle still
\* references it, and never stays alive once all its handles have dropped.
C1_Lifetime ==
  /\ [](\A n \in Nodes :
          /\ alive[n] => ref[n] = Cardinality(LiveHandles(n))
          /\ ~alive[n] => LiveHandles(n) = {}
          /\ (dropped[n] > 0 /\ LiveHandles(n) = {}) => ~alive[n]
          /\ deletes[n] = (IF alive[n] THEN 0 ELSE 1))
  /\ [][\A n \in Nodes :
          (alive[n] /\ ~alive'[n]) <=> (ref[n] = 1 /\ ref'[n] = 0)]_vars

\* A node that had several handles and was deleted, once, when the last dropped.
C1_Witness ==
  \E n \in Nodes : ~alive[n] /\ dropped[n] >= 2 /\ deletes[n] = 1

\* C2: on a defined handle to a node of kind K, isa<K> is true and isa<J> false
\* for every other concrete kind J, to<K> returns a view of the same node and
\* to<J> fails the invariant check; on an undefined handle isa<K> is false
\* (without failing) and to<K> fails the invariant check, for every K.
C2_Downcast ==
  /\ (res.op = "isa" /\ res.E \in AllKinds) =>
       /\ halt = "running"
       /\ res.out = (IF ptr # Null /\ res.E = node.kind THEN "true" ELSE "false")
  /\ (res.op = "to" /\ res.E \in AllKinds) =>
       IF ptr # Null /\ res.E = node.kind
         THEN res.out = "view" /\ res.view = NodeAddr /\ halt = "running"
         ELSE res.out = "iassert" /\ res.view = Null /\ halt = "iassert"

\* to<Add> has returned a view of an Add node.
C2_Witness ==
  /\ ptr # Null /\ node.kind = "Add"
  /\ res.op = "to" /\ res.E = "Add" /\ res.out = "view" /\ res.view = ptr

\* C3: type() or accept() on an undefined handle ends in the fatal
\* invariant failure (as a wrong downcast does), not in a read of the
\* missing node.
C3_UndefinedUse ==
  (ptr = Null /\ res.op \in {"type", "accept"}) =>
    (res.out = "iassert" /\ halt = "iassert")

\* C4: an accepted ForDomain has a populated indexSet only if its kind is
\* IndexSet or NeighborsOf; (set, var, kind, indexSet) fails for every kind but
\* NeighborsOf, (set, var, kind) fails for kind IndexSet, and
\* (set, var, NeighborsOf) is accepted with the default index set.
C4_ForDomain ==
  /\ (fdOut = "accepted" /\ fd.indexSet # DefaultIndexSet) =>
       fd.kind \in {"IndexSet", "NeighborsOf"}
  /\ (fdCall.ctor = "(set,var,kind,indexSet)" /\ fdCall.kind # "NeighborsOf") =>
       fdOut = "iassert"
  /\ (fdCall.ctor = "(set,var,kind)" /\ fdCall.kind = "IndexSet") =>
       fdOut = "iassert"
  /\ (fdCall.ctor = "(set,var,kind)" /\ fdCall.kind = "NeighborsOf") =>
       (fdOut = "accepted" /\ fd.kind = "NeighborsOf" /\ fd.indexSet = DefaultIndexSet)

\* Kind Edges with a populated index set has been rejected.
C4_Witness ==
  /\ fdCall.ctor = "(set,var,kind,indexSet)"
  /\ fdCall.kind = "Edges"
  /\ fdCall.indexSet # DefaultIndexSet
  /\ fdOut = "iassert"

\* C5: on a tensor of order k, TensorRead::make and TensorWrite::make succeed
\* exactly when the index list has 1 or k elements, and fail the invariant
\* check for every other size.
C5_Arity ==
  tCall.op # "none" =>
    IF Len(tCall.indices) = 1 \/ Len(tCall.indices) = tCall.order
      THEN tOut = "node"
      ELSE tOut = "iassert"

\* A write with 2 indices into a tensor of order 3 has been rejected.
C5_Witness ==
  /\ tCall.op = "TensorWrite" /\ tCall.order = 3 /\ Len(tCall.indices) = 2
  /\ tOut = "iassert"

Reverse(q) == [n \in 1..Len(q) |-> q[Len(q) + 1 - n]]

\* C6: getIndexExprType(resultVars, value) is a tensor of order
\* Len(resultVars) whose d-th dimension is the index-set size of resultVars[d];
\* variables only in value add no dimension, and the order in which variables
\* appear in value does not matter.
C6_TypeLaw ==
  ieType.kind # "none" =>
    LET rv == ieCall.resultVars
    IN /\ ieType.kind = "tensor"
       /\ ieType.order = Len(rv)
       /\ Len(ieType.dims) = Len(rv)
       /\ \A d \in 1..Len(rv) : ieType.dims[d] = IndexSetSize(rv[d])
       /\ getIndexExprType(rv, [ieCall.value EXCEPT !.vars = Reverse(@)]) = ieType

\* resultVars = <<j, i>> over a value that names k, then i, then j.
C6_Witness ==
  /\ ieCall.resultVars = <<"j", "i">>
  /\ IndexExpr_domain(ieCall.value) = <<"k", "i", "j">>
  /\ ieType.kind = "tensor"
  /\ ieType.dims = <<4, 3>>

\* C7: after any setEnvironment and setStorage calls the getters of name,
\* arguments, results, body and kind return the constructor's values (the body
\* of a declaration is undefined), getStorage and getEnvironment return the
\* last value set, and each setter leaves the other slot unchanged.
C7_FuncFrame ==
  /\ Func_getName(content) = ctor.name
  /\ Func_getArguments(content) = ctor.arguments
  /\ Func_getResults(content) = ctor.results
  /\ Func_getBody(content) = ctor.body
  /\ Func_getKind(content) = ctor.kind
  /\ Func_getStorage(content) = lastStorage
  /\ Func_getEnvironment(content) = lastEnv
  /\ got.getter = "getName" => got.value = ctor.name
  /\ got.getter = "getArguments" => got.value = ctor.arguments
  /\ got.getter = "getResults" => got.value = ctor.results
  /\ got.getter = "getBody" => got.value = ctor.body
  /\ got.getter = "getKind" => got.value = ctor.kind

\* A declaration whose environment and storage were both set, asked for its body.
C7_Witness ==
  /\ ctor.body = Null
  /\ lastEnv = "envB" /\ lastStorage = "stA"
  /\ got.getter = "getBody" /\ got.value = Null

C9_Dispatch ==
  [][nAccept' # nAccept =>
       /\ nAccept' = nAccept + 1
       /\ visited' = Append(visited, node.kind)
       /\ node' = node
       /\ ptr' = ptr]_vars

\* An Add node visited twice.
C9_Witness ==
  node.kind = "Add" /\ nAccept = 2 /\ visited = <<"Add", "Add">>

\* C10: when whole aquire/release calls are serialized the count equals the
\* number of live handles and the node is alive exactly while one exists; with
\* the calls interleaved a state is reached where the node is deleted while a
\* handle still references it (the witness).
C10_Serialized ==
  locked =>
    /\ ~uaf
    /\ alive[cnode] => ref[cnode] = Cardinality(LiveHandles(cnode))
    /\ ~alive[cnode] => LiveHandles(cnode) = {}
    /\ (dropped[cnode] > 0 /\ LiveHandles(cnode) = {}) => ~alive[cnode]
    /\ deletes[cnode] = (IF alive[cnode] THEN 0 ELSE 1)

\* Unsynchronized: the node is gone, a handle still points to it, and no
\* thread is inside a call.
C10_Witness ==
  /\ ~locked
  /\ ~alive[cnode]
  /\ LiveHandles(cnode) # {}
  /\ ref[cnode] # Cardinality(LiveHandles(cnode))
  /\ \A t \in Threads : pc[t] = "idle"
  /\ ~uaf
====
